---- MODULE Spec2Model ----
(***************************************************************************)
(* A model of db_explorer.go: the request router (PathDefinition), the    *)
(* value coercion and validation functions (CastingValues, CheckType)     *)
(* and the CRUD handlers, run against a small model of the MySQL tables   *)
(* they query.                                                             *)
(*                                                                         *)
(* Go strings are sequences of one-character strings, so that the         *)
(* substring tests, the regular expressions and strings.Split of the      *)
(* source are computed character by character.                            *)
(***************************************************************************)
EXTENDS Integers, Sequences, FiniteSets, TLC

VARIABLES
    tables,     \* the catalog built by NewDBExplorer: table name -> Table
    strict,     \* whether the MySQL server runs in strict SQL mode
    rows,       \* table name -> the table's rows, in scan order
    autoInc,    \* table name -> the last AUTO_INCREMENT value handed out
    req,        \* the request served last
    resp,       \* what the handler wrote to the ResponseWriter
    ran,        \* the handlers invoked for the request served last
    sqlLits,    \* the request values the handler concatenated into SQL text
    whereCol,   \* the column the handler's WHERE clauses name
    preRows,    \* rows, as they were when the request served last arrived
    preAutoInc, \* autoInc, as it was when the request served last arrived
    pending     \* GetRecord calls between their EXISTS query and their fetch

vars == <<tables, strict, rows, autoInc, req, resp, ran, sqlLits, whereCol,
          preRows, preAutoInc, pending>>

-----------------------------------------------------------------------------
(* Bounds of the model.                                                    *)

\* The largest AUTO_INCREMENT value a table hands out.
MaxId == 2
\* The most fields a request body holds.
MaxBodyKeys == 2
\* The longest path of the exhaustively enumerated request paths.
MaxPathLen == 4
\* The most rows of the table the pagination requests read.
MaxListRows == 7
\* The most GetRecord calls in flight at once.
MaxPending == 1

-----------------------------------------------------------------------------
(* Strings.                                                                *)

LowerLetters == <<"a","b","c","d","e","f","g","h","i","j","k","l","m",
                  "n","o","p","q","r","s","t","u","v","w","x","y","z">>
UpperLetters == <<"A","B","C","D","E","F","G","H","I","J","K","L","M",
                  "N","O","P","Q","R","S","T","U","V","W","X","Y","Z">>
DigitChars == <<"0","1","2","3","4","5","6","7","8","9">>

Range(f) == {f[i] : i \in DOMAIN f}

IsLetter(c) == c \in Range(LowerLetters) \cup Range(UpperLetters)
IsDigit(c) == c \in Range(DigitChars)

\* regexp `\d+` against a whole string.
AllDigits(s) == Len(s) >= 1 /\ \A i \in 1..Len(s) : IsDigit(s[i])

HasPrefix(s, p) == Len(s) >= Len(p) /\ SubSeq(s, 1, Len(p)) = p
Drop(s, n) == SubSeq(s, n + 1, Len(s))

\* strings.Contains
Contains(s, sub) ==
    \E i \in 0..(Len(s) - Len(sub)) : SubSeq(s, i + 1, i + Len(sub)) = sub

\* strings.ToLower, on ASCII.
LowerChar(c) ==
    IF c \in Range(UpperLetters)
    THEN LowerLetters[CHOOSE i \in 1..26 : UpperLetters[i] = c]
    ELSE c
ToLower(s) == [i \in 1..Len(s) |-> LowerChar(s[i])]

\* strings.Split(s, sep) for a one-character separator.
RECURSIVE SplitFrom(_, _, _)
SplitFrom(s, sep, cur) ==
    IF s = <<>> THEN <<cur>>
    ELSE IF Head(s) = sep THEN <<cur>> \o SplitFrom(Tail(s), sep, <<>>)
    ELSE SplitFrom(Tail(s), sep, Append(cur, Head(s)))
Split(s, sep) == SplitFrom(s, sep, <<>>)

\* The value of a string of decimal digits.
DigitValue(c) == (CHOOSE i \in 1..10 : DigitChars[i] = c) - 1
RECURSIVE DigitsToNat(_, _)
DigitsToNat(s, acc) ==
    IF s = <<>> THEN acc ELSE DigitsToNat(Tail(s), 10 * acc + DigitValue(Head(s)))

\* The decimal text of a natural number.
RECURSIVE Itoa(_)
Itoa(n) == IF n < 10 THEN <<DigitChars[n + 1]>>
           ELSE Itoa(n \div 10) \o <<DigitChars[(n % 10) + 1]>>

\* The longest prefix of decimal digits.
RECURSIVE DigitPrefix(_)
DigitPrefix(s) ==
    IF s = <<>> \/ ~IsDigit(Head(s)) THEN <<>>
    ELSE <<Head(s)>> \o DigitPrefix(Tail(s))

Min(a, b) == IF a < b THEN a ELSE b
Max(a, b) == IF a > b THEN a ELSE b

-----------------------------------------------------------------------------
(* Names that occur in the source or in the modelled database.            *)

N_id == <<"i","d">>
N_uid == <<"u","i","d">>
N_ID == <<"I","D">>
N_name == <<"n","a","m","e">>
N_w == <<"w">>
N_n == <<"n">>
N_zz == <<"z","z">>
N_t == <<"t">>
N_u == <<"u">>
N_x == <<"x">>

\* The reflect type names database/sql column types and JSON values carry.
T_int32 == <<"i","n","t","3","2">>
T_int64 == <<"i","n","t","6","4">>
T_uint32 == <<"u","i","n","t","3","2">>
T_float32 == <<"f","l","o","a","t","3","2">>
T_float64 == <<"f","l","o","a","t","6","4">>
T_NullInt64 == <<"N","u","l","l","I","n","t","6","4">>
T_NullFloat64 == <<"N","u","l","l","F","l","o","a","t","6","4">>
T_NullTime == <<"N","u","l","l","T","i","m","e">>
T_RawBytes == <<"R","a","w","B","y","t","e","s">>
T_string == <<"s","t","r","i","n","g">>
T_bool == <<"b","o","o","l">>

\* var FloatIntString = "float64 int32"
FloatIntString == T_float64 \o <<" ">> \o T_int32

-----------------------------------------------------------------------------
(* The database: cells, rows and the tables the catalog is built from.    *)

\* A stored cell: NULL, an integer, a text or a floating point number (kept
\* as the decimal text MySQL sends for it).
Cell(k, n, s) == [k |-> k, n |-> n, s |-> s]
NullCell == Cell("null", 0, <<>>)
IntCell(n) == Cell("int", n, <<>>)
TextCell(s) == Cell("text", 0, s)
FloatCell(s) == Cell("float", 0, s)

Column(name, scanType, nullable) ==
    [name |-> name, scanType |-> scanType, nullable |-> nullable]

\* type Table struct { name; columns; columnTypes }, as NewDBExplorer fills
\* it from rows.Columns() and rows.ColumnTypes().
Table(name, cols) ==
    [name |-> name,
     columns |-> [i \in 1..Len(cols) |-> cols[i].name],
     columnTypes |-> cols]

\* The table layouts the database may hold under the name "t"; autoCol is the
\* AUTO_INCREMENT primary key column, <<>> when the table has none.
Schemas ==
    { [table |-> Table(N_t, <<Column(N_id, T_int32, FALSE),
                              Column(N_name, T_RawBytes, TRUE)>>),
       autoCol |-> N_id],
      [table |-> Table(N_t, <<Column(N_id, T_int32, FALSE),
                              Column(N_uid, T_NullInt64, TRUE),
                              Column(N_n, T_int32, FALSE)>>),
       autoCol |-> N_id],
      [table |-> Table(N_t, <<Column(N_ID, T_int32, FALSE),
                              Column(N_name, T_RawBytes, FALSE)>>),
       autoCol |-> N_ID],
      [table |-> Table(N_t, <<Column(N_name, T_RawBytes, FALSE),
                              Column(N_w, T_float64, FALSE)>>),
       autoCol |-> <<>>] }

SchemaOf(table) == CHOOSE sc \in Schemas : sc.table = table
AutoCol(table) == SchemaOf(table).autoCol

ColumnIndex(table, name) ==
    CHOOSE i \in 1..Len(table.columns) : table.columns[i] = name
ColumnType(table, name) == table.columnTypes[ColumnIndex(table, name)]

\* What a cell of a column holds before the server starts.
SeedCell(col, id) ==
    IF col.scanType = T_int32 THEN IntCell(IF col.name = N_n THEN 1 ELSE id)
    ELSE IF col.scanType = T_NullInt64 THEN IntCell(MaxId)
    ELSE IF col.scanType = T_float64 THEN FloatCell(<<"1", ".", "5">>)
    ELSE TextCell(N_x)

SeedRow(table, id) ==
    [c \in Range(table.columns) |-> SeedCell(ColumnType(table, c), id)]

\* The rows the table holds when the server starts: none, or n rows with the
\* keys 1..n. Their uid cells are equal: uid is no key.
SeedRows(table, n) == [i \in 1..n |-> SeedRow(table, i)]

-----------------------------------------------------------------------------
(* The request router.                                                     *)

AlNum(c) == IsLetter(c) \/ IsDigit(c)
AlNumSlash(c) == AlNum(c) \/ c = "/"

\* `^/{1}$`
PatRoot(p) == p = <<"/">>

L_limit == <<"l","i","m","i","t","=">>
L_offset == <<"o","f","f","s","e","t","=">>
L_offsetd == <<"o","f","f","s","e","t","=","d">>

\* `limit=\d+(&offset=\d+)?`
PatLimitOffset(s) ==
    /\ HasPrefix(s, L_limit)
    /\ LET r == Drop(s, Len(L_limit)) IN
       \/ AllDigits(r)
       \/ \E j \in 1..Len(r) :
            /\ AllDigits(SubSeq(r, 1, j))
            /\ HasPrefix(Drop(r, j), <<"&">> \o L_offset)
            /\ AllDigits(Drop(r, j + 1 + Len(L_offset)))

\* `offset=d+(&limit=\d+)?`: the source writes d+ here, the letter d.
PatOffsetLimit(s) ==
    /\ HasPrefix(s, L_offsetd)
    /\ LET r == Drop(s, Len(L_offsetd)) IN
       \E j \in 0..Len(r) :
            /\ \A i \in 1..j : r[i] = "d"
            /\ \/ j = Len(r)
               \/ /\ HasPrefix(Drop(r, j), <<"&">> \o L_limit)
                  /\ AllDigits(Drop(r, j + 1 + Len(L_limit)))

\* `(:?(limit=...|offset=...)?)?`
PatQueryTail(s) ==
    \/ s = <<>>
    \/ LET r == IF HasPrefix(s, <<":">>) THEN {s, Drop(s, 1)} ELSE {s} IN
       \E q \in r : q = <<>> \/ PatLimitOffset(q) \/ PatOffsetLimit(q)

\* `^\/[^\/?]+(:?(limit=\d+(&offset=\d+)?|offset=d+(&limit=\d+)?)?)?$`
PatTableValues(p) ==
    /\ Len(p) >= 2
    /\ p[1] = "/"
    /\ \E k \in 2..Len(p) :
         /\ \A i \in 2..k : p[i] \notin {"/", "?"}
         /\ PatQueryTail(Drop(p, k))

\* `^/[a-zA-Z][a-zA-Z0-9]*/\d+$`
PatRecord(p) ==
    /\ Len(p) >= 4
    /\ p[1] = "/"
    /\ IsLetter(p[2])
    /\ \E k \in 3..(Len(p) - 1) :
         /\ \A i \in 3..(k - 1) : AlNum(p[i])
         /\ p[k] = "/"
         /\ AllDigits(Drop(p, k))

\* `^/[a-zA-Z][a-zA-Z/0-9]*/$`
PatInsert(p) ==
    /\ Len(p) >= 3
    /\ p[1] = "/"
    /\ IsLetter(p[2])
    /\ \A i \in 3..(Len(p) - 1) : AlNumSlash(p[i])
    /\ p[Len(p)] = "/"

\* `^/[a-zA-Z][a-zA-Z/0-9]*/\d+$`
PatRecordWrite(p) ==
    /\ Len(p) >= 4
    /\ p[1] = "/"
    /\ IsLetter(p[2])
    /\ \E k \in 3..(Len(p) - 1) :
         /\ \A i \in 3..(k - 1) : AlNumSlash(p[i])
         /\ p[k] = "/"
         /\ AllDigits(Drop(p, k))

\* The reqs slice of NewDBExplorer; path names the rule's regular expression.
reqs ==
    << [path |-> "root", method |-> "GET", function |-> "GetTables"],
       [path |-> "tableValues", method |-> "GET", function |-> "GetTableValues"],
       [path |-> "record", method |-> "GET", function |-> "GetRecord"],
       [path |-> "insert", method |-> "PUT", function |-> "PutRecord"],
       [path |-> "recordWrite", method |-> "POST", function |-> "UpdateRecord"],
       [path |-> "recordWrite", method |-> "DELETE", function |-> "DeleteRecord"] >>

\* regexp.Compile(val.path) followed by reg.MatchString(path).
MatchString(pat, p) ==
    CASE pat = "root" -> PatRoot(p)
      [] pat = "tableValues" -> PatTableValues(p)
      [] pat = "record" -> PatRecord(p)
      [] pat = "insert" -> PatInsert(p)
      [] pat = "recordWrite" -> PatRecordWrite(p)

RuleSelects_AnyMethod(val, path, method) == MatchString(val.path, path)

RuleSelects(val, path, method) ==
    MatchString(val.path, path) /\ val.method = method

\* PathDefinition: the handler of the first rule that selects the request,
\* "nil" when none does.
RECURSIVE PathDefinitionFrom(_, _, _, _)
PathDefinitionFrom(i, path, method, rs) ==
    IF i > Len(rs) THEN "nil"
    ELSE IF RuleSelects(rs[i], path, method) THEN rs[i].function
    ELSE PathDefinitionFrom(i + 1, path, method, rs)

PathDefinition(path, method, rs) == PathDefinitionFrom(1, path, method, rs)

-----------------------------------------------------------------------------
(* MySQL, as far as the handlers' statements need it.                     *)

NumericPrefix(s) == DigitsToNat(DigitPrefix(s), 0)

\* column = ? with a Go string bound to the placeholder: a numeric column is
\* compared as a number, the string converted by its leading digits; a text
\* column is compared as text; NULL equals nothing.
CellEqualsString(cell, s) ==
    CASE cell.k = "null" -> FALSE
      [] cell.k = "int" -> cell.n = NumericPrefix(s)
      [] cell.k = "text" -> cell.s = s
      [] cell.k = "float" -> cell.s = s

\* column = <digits> with the digits written into the statement: a number.
CellEqualsNumber(cell, n) ==
    CASE cell.k = "null" -> FALSE
      [] cell.k = "int" -> cell.n = n
      [] cell.k = "text" -> NumericPrefix(cell.s) = n
      [] cell.k = "float" -> cell.s = Itoa(n)

\* column = column
CellEqualsCell(a, b) == a.k # "null" /\ b.k # "null" /\ a = b

\* What the driver hands to rows.Scan(&interface{}) for a cell: NULL as a
\* nil interface, anything else as the bytes of its text.
RawNull == [k |-> "null", bytes |-> <<>>]
RawBytes(b) == [k |-> "bytes", bytes |-> b]
\* A values[i] that no Scan has filled: make([]interface{}, n) leaves nil.
RawUnset == [k |-> "unset", bytes |-> <<>>]

ScanCell(cell) ==
    CASE cell.k = "null" -> RawNull
      [] cell.k = "int" -> RawBytes(Itoa(cell.n))
      [] cell.k = "text" -> RawBytes(cell.s)
      [] cell.k = "float" -> RawBytes(cell.s)

ScanRow(table, row) ==
    [i \in 1..Len(table.columns) |-> ScanCell(row[table.columns[i]])]

-----------------------------------------------------------------------------
(* Outbound coercion.                                                      *)

\* The values a response holds: null, an integer, a float (its decimal
\* text) or a string.
JNull == [k |-> "null", n |-> 0, s |-> <<>>]
JInt(n) == [k |-> "int", n |-> n, s |-> <<>>]
JFloat(s) == [k |-> "float", n |-> 0, s |-> s]
JString(s) == [k |-> "string", n |-> 0, s |-> s]

\* strconv.Atoi on unsigned text.
AtoiOk(s) == AllDigits(s)
Atoi(s) == DigitsToNat(s, 0)

\* strconv.ParseFloat on unsigned decimal text: digits, or digits.digits.
ParseFloatOk(s) ==
    \/ AllDigits(s)
    \/ \E j \in 1..Len(s) :
         AllDigits(SubSeq(s, 1, j - 1)) /\ s[j] = "." /\ AllDigits(Drop(s, j))

CastInt(column) == Contains(column.scanType, <<"i","n","t">>)
CastFloat(column) == Contains(column.scanType, <<"f","l","o","a","t">>)

\* One turn of the loop of CastingValues: [err, value].
CastValue(column, raw) ==
    CASE raw.k = "unset" -> [err |-> TRUE, value |-> JNull]
      [] raw.k = "null" -> [err |-> FALSE, value |-> JNull]
      [] OTHER ->
         IF CastInt(column)
         THEN [err |-> ~AtoiOk(raw.bytes),
               value |-> IF AtoiOk(raw.bytes) THEN JInt(Atoi(raw.bytes)) ELSE JNull]
         ELSE IF CastFloat(column)
         THEN [err |-> ~ParseFloatOk(raw.bytes), value |-> JFloat(raw.bytes)]
         ELSE [err |-> FALSE, value |-> JString(raw.bytes)]

\* CastingValues: [err, values]; err as soon as one value fails.
CastingValues(table, values) ==
    LET cast == [i \in 1..Len(values) |-> CastValue(table.columnTypes[i], values[i])]
    IN [err |-> \E i \in 1..Len(values) : cast[i].err,
        values |-> [i \in 1..Len(values) |-> cast[i].value]]

\* The JSON object a handler builds from a cast row: column name -> value.
RecordOf(table, values) ==
    [c \in {table.columnTypes[i].name : i \in 1..Len(table.columnTypes)} |->
        values[CHOOSE i \in 1..Len(table.columnTypes) : table.columnTypes[i].name = c]]

-----------------------------------------------------------------------------
(* Responses.                                                              *)

Resp(status, kind, msg, data) ==
    [status |-> status, kind |-> kind, msg |-> msg, data |-> data]

\* Nothing written: net/http answers 200 with an empty body.
NoResp == Resp(0, "none", "", <<>>)
\* http.Error(w, msg, status)
HttpError(status, msg) == Resp(status, "text", msg, <<>>)
\* {"error": msg} after w.WriteHeader(status)
JsonError(status, msg) == Resp(status, "error", msg, <<>>)
\* {"response": {kind: data}}
JsonResponse(kind, data) == Resp(200, kind, "", data)

-----------------------------------------------------------------------------
(* Handlers.                                                               *)

\* CheckTable: the table named by the first path segment, or the response
\* that ends the request.
CheckTable(path, tbls) ==
    LET segs == Split(path, "/") IN
    IF Len(segs) < 2
    THEN [ok |-> FALSE, table |-> <<>>, resp |-> HttpError(400, "Bad Request")]
    ELSE IF segs[2] \notin DOMAIN tbls
    THEN [ok |-> FALSE, table |-> <<>>, resp |-> JsonError(404, "unknown table")]
    ELSE [ok |-> TRUE, table |-> tbls[segs[2]], resp |-> NoResp]

\* The loops `for ... { if strings.Contains(col, "id") { idName = col } }`:
\* every match overwrites idName, there is no break.
RECURSIVE IdNameLoop(_, _, _, _)
IdNameLoop(columns, i, idName, lower) ==
    IF i > Len(columns) THEN idName
    ELSE IdNameLoop(columns, i + 1,
                    IF Contains(IF lower THEN ToLower(columns[i]) ELSE columns[i], N_id)
                    THEN columns[i] ELSE idName,
                    lower)

\* GetRecord's id column: strings.Contains(val, "id").
GetIdName(table) == IdNameLoop(table.columns, 1, <<>>, FALSE)
\* UpdateRecord's and DeleteRecord's: strings.Contains(strings.ToLower(...), "id").
WriteIdName(table) == IdNameLoop(table.columns, 1, <<>>, TRUE)

\* GetTables: the table names, sorted ascending. (One table: sorted.)
GetTables(tbls) ==
    JsonResponse("tables", DOMAIN tbls)

\* r.URL.Query().Get(key): "" when the parameter is absent.
QueryGet(query, key) == IF key \in DOMAIN query THEN query[key] ELSE <<>>

LimitOf_WithOffset(query) ==
    LET limQuery == IF "limit" \in DOMAIN query THEN query["limit"] ELSE <<>>
        offQuery == IF "offset" \in DOMAIN query THEN query["offset"] ELSE <<>>
    IN IF limQuery = <<>> \/ ~AllDigits(limQuery) \/ ~AllDigits(offQuery)
       THEN <<"5">> ELSE limQuery

\* GetTableValues' defaulting of limit and offset.
LimitOf(query) ==
    LET limQuery == QueryGet(query, "limit") IN
    IF limQuery = <<>> \/ ~AllDigits(limQuery) THEN <<"5">> ELSE limQuery
OffsetOf(query) ==
    LET offQuery == QueryGet(query, "offset") IN
    IF offQuery = <<>> \/ ~AllDigits(offQuery) THEN <<"0">> ELSE offQuery

\* SELECT * FROM t LIMIT l OFFSET o
SelectLimitOffset(rws, l, o) == SubSeq(rws, o + 1, Min(Len(rws), o + l))

\* GetTableValues: [resp, lits].
GetTableValues(tbls, rws, path, query) ==
    LET ct == CheckTable(path, tbls) IN
    IF ~ct.ok THEN [resp |-> ct.resp, lits |-> {}]
    ELSE
    LET table == ct.table
        limQuery == LimitOf(query)
        offQuery == OffsetOf(query)
        got == SelectLimitOffset(rws[table.name], DigitsToNat(limQuery, 0),
                                 DigitsToNat(offQuery, 0))
        cast == [i \in 1..Len(got) |-> CastingValues(table, ScanRow(table, got[i]))]
        lits == {[what |-> "limit", text |-> limQuery],
                 [what |-> "offset", text |-> offQuery]}
    IN IF \E i \in 1..Len(got) : cast[i].err
       THEN [resp |-> HttpError(500, "casting"), lits |-> lits]
       ELSE [resp |-> JsonResponse("records",
                         [i \in 1..Len(got) |-> RecordOf(table, cast[i].values)]),
             lits |-> lits]

\* GetRecord up to and including its EXISTS query: done with a response, or
\* not done and the call's table, id and idName.
GetRecordCheck(tbls, rws, path) ==
    LET ct == CheckTable(path, tbls)
        segs == Split(path, "/")
        call(done, r, table, id, idName) ==
            [done |-> done, resp |-> r, table |-> table, id |-> id, idName |-> idName,
             path |-> path]
    IN
    IF ~ct.ok THEN call(TRUE, ct.resp, <<>>, <<>>, <<>>)
    ELSE IF Len(segs) < 3
    THEN call(TRUE, HttpError(400, "bad request"), <<>>, <<>>, <<>>)
    ELSE
    LET table == ct.table
        id == segs[3]
        idName == GetIdName(table)
    IN IF idName = <<>>
       THEN call(TRUE, HttpError(400, "unknown parameter"), <<>>, <<>>, <<>>)
       ELSE IF ~\E i \in 1..Len(rws[table.name]) :
                    CellEqualsString(rws[table.name][i][idName], id)
       THEN call(TRUE, JsonError(404, "record not found"), <<>>, <<>>, idName)
       ELSE call(FALSE, NoResp, table, id, idName)

\* The rest of GetRecord: the fetch with the id written into the statement,
\* the scan loop (every row overwrites values), the cast and the response.
GetRecordFetch(rws, call) ==
    LET table == call.table
        hit(row) == CellEqualsNumber(row[call.idName], DigitsToNat(call.id, 0))
        got == SelectSeq(rws[table.name], hit)
        values == IF got = <<>>
                  THEN [i \in 1..Len(table.columns) |-> RawUnset]
                  ELSE ScanRow(table, got[Len(got)])
        cast == CastingValues(table, values)
    IN IF ~AllDigits(call.id) THEN HttpError(500, "sql")
       ELSE IF cast.err THEN HttpError(500, "casting type error")
       ELSE JsonResponse("record", RecordOf(table, cast.values))

\* The value GetRecord writes into its fetch statement.
GetRecordLits(call) == {[what |-> "id", text |-> call.id]}

\* DELETE FROM t WHERE idName = ?, the id bound to the placeholder: the rows
\* left and the number deleted; err when the statement does not parse, and
\* in strict mode when a text that is no number is compared with a number
\* (a data-changing statement turns the truncation warning into an error).
ExecDelete(rws, isStrict, idName, id) ==
    LET gone(row) == CellEqualsString(row[idName], id)
        stay(row) == ~gone(row)
        truncated == \E i \in 1..Len(rws) : rws[i][idName].k = "int" /\ ~AllDigits(id)
    IN IF idName = <<>> \/ (isStrict /\ truncated)
       THEN [err |-> TRUE, rows |-> rws, affected |-> 0]
       ELSE [err |-> FALSE, rows |-> SelectSeq(rws, stay),
             affected |-> Len(SelectSeq(rws, gone))]

\* DeleteRecord: [resp, rows, where].
DeleteRecord(tbls, rws, isStrict, path) ==
    LET ct == CheckTable(path, tbls)
        segs == Split(path, "/")
        same(r) == [resp |-> r, rows |-> rws, where |-> <<>>]
    IN
    IF ~ct.ok THEN same(ct.resp)
    ELSE IF Len(segs) < 3 THEN same(HttpError(400, "bad request"))
    ELSE
    LET table == ct.table
        idName == WriteIdName(table)
        res == ExecDelete(rws[table.name], isStrict, idName, segs[3])
    IN IF res.err THEN [resp |-> HttpError(500, "sql"), rows |-> rws, where |-> idName]
       ELSE [resp |-> JsonResponse("deleted", res.affected),
             rows |-> [rws EXCEPT ![table.name] = res.rows],
             where |-> idName]

-----------------------------------------------------------------------------
(* Inbound validation and the writing handlers.                           *)

\* The values json.Unmarshal puts into a map[string]interface{}: nil, a
\* string, a float64 or a bool.
GoNil == [k |-> "nil", n |-> 0, s |-> <<>>]
GoString(s) == [k |-> "string", n |-> 0, s |-> s]
GoFloat64(n) == [k |-> "float64", n |-> n, s |-> <<>>]
GoBool(b) == [k |-> "bool", n |-> IF b THEN 1 ELSE 0, s |-> <<>>]

\* reflect.TypeOf(currentVal).Name()
TypeName(val) ==
    CASE val.k = "string" -> T_string
      [] val.k = "float64" -> T_float64
      [] val.k = "bool" -> T_bool

\* The body of CheckType's loop for the column named key.
CheckColumnType(column, currentVal) ==
    IF currentVal.k = "nil" /\ column.nullable THEN TRUE
    ELSE IF ~column.nullable /\ currentVal.k = "nil" THEN FALSE
    ELSE IF TypeName(currentVal) = T_string /\ column.scanType # T_RawBytes THEN FALSE
    ELSE IF /\ ~Contains(FloatIntString, column.scanType)
            /\ Contains(FloatIntString, TypeName(currentVal)) THEN FALSE
    ELSE TRUE

\* CheckType: true when no column is named key.
CheckType(key, currentVal, table) ==
    \A i \in 1..Len(table.columnTypes) :
        table.columnTypes[i].name = key =>
            CheckColumnType(table.columnTypes[i], currentVal)

\* CheckColumn
CheckColumn(val, table) == \E i \in 1..Len(table.columns) : table.columns[i] = val

\* A request body: not JSON, or a JSON object as the sequence of its fields in
\* the order the Go map iterates them.
BadJSON == <<[key |-> <<>>, val |-> GoNil]>>
BodyKeys(body) == {body[i].key : i \in 1..Len(body)}
BodyValue(body, key) == body[CHOOSE i \in 1..Len(body) : body[i].key = key].val

\* What MySQL stores in a column for a value bound to a placeholder:
\* [err, cell]. A text that is no number stored into a numeric column is an
\* error in strict mode and 0 otherwise.
StoreValue(column, val, isStrict) ==
    LET ok(cell) == [err |-> FALSE, cell |-> cell]
        bad == [err |-> TRUE, cell |-> NullCell]
        numeric(n) == IF CastFloat(column) THEN FloatCell(Itoa(n)) ELSE IntCell(n)
        isNumeric == \/ Contains(ToLower(column.scanType), <<"i","n","t">>)
                     \/ Contains(ToLower(column.scanType), <<"f","l","o","a","t">>)
    IN CASE val.k = "nil" -> IF column.nullable THEN ok(NullCell) ELSE bad
         [] val.k = "string" ->
              IF ~isNumeric THEN ok(TextCell(val.s))
              ELSE IF AllDigits(val.s) THEN ok(numeric(DigitsToNat(val.s, 0)))
              ELSE IF isStrict THEN bad ELSE ok(numeric(0))
         [] OTHER ->
              IF isNumeric THEN ok(numeric(val.n)) ELSE ok(TextCell(Itoa(val.n)))

\* The keys of PutRecord's values map: every column (seeded nil), the body's
\* fields over them, and no key that is not a column.
PutValue(table, body, key) ==
    IF key \in BodyKeys(body) THEN BodyValue(body, key) ELSE GoNil

\* The keys PutRecord leaves out of the INSERT: strings.Contains(key, "id").
PutIdKeys(table) == {c \in Range(table.columns) : Contains(c, N_id)}
\* idName is the last of them the map iteration meets: any of them.
PutIdNames(table) == IF PutIdKeys(table) = {} THEN {<<>>} ELSE PutIdKeys(table)

\* The value PutRecord binds for a column it inserts.
PutBound(table, body, key) ==
    IF CheckType(key, PutValue(table, body, key), table)
    THEN PutValue(table, body, key)
    ELSE GoString(<<>>)

\* INSERT INTO t (fields) VALUES (?...): [err, row, id]. A column that is
\* not among the fields gets its default: the next AUTO_INCREMENT value, or
\* NULL, or in strict mode an error. Storing 0 into the AUTO_INCREMENT
\* column asks for the next value too; id is what LastInsertId() returns.
NextAutoIncrement_RowCount(auto, rws) == Len(rws) + 1

\* The value an INSERT generates for the AUTO_INCREMENT column: one more than
\* the table's counter, whatever rows the table still holds.
NextAutoIncrement(auto, rws) == auto + 1

ExecInsert(table, rws, auto, isStrict, fields, bound) ==
    LET autoCol == AutoCol(table)
        stored(c) == StoreValue(ColumnType(table, c), bound[c], isStrict)
        generated(c) == c = autoCol /\ (c \notin fields \/ stored(c).cell = IntCell(0))
        cellOf(c) ==
            IF generated(c) THEN IntCell(NextAutoIncrement(auto, rws))
            ELSE IF c \in fields THEN stored(c).cell
            ELSE IF ColumnType(table, c).nullable THEN NullCell
            ELSE IF CastInt(ColumnType(table, c)) THEN IntCell(0)
            ELSE TextCell(<<>>)
        row == [c \in Range(table.columns) |-> cellOf(c)]
        err == \/ \E c \in fields : stored(c).err
               \/ \E c \in Range(table.columns) \ fields :
                    c # autoCol /\ ~ColumnType(table, c).nullable /\ isStrict
               \/ /\ autoCol # <<>>
                  /\ \E i \in 1..Len(rws) : rws[i][autoCol] = row[autoCol]
    IN [err |-> err, row |-> row,
        id |-> IF autoCol = <<>> THEN 0 ELSE row[autoCol].n]

\* PutRecord, idName being the key its loop met last: [resp, rows, autoInc].
PutRecord(tbls, rws, auto, isStrict, path, body, idName) ==
    LET ct == CheckTable(path, tbls)
        same(r) == [resp |-> r, rows |-> rws, autoInc |-> auto]
    IN
    IF ~ct.ok THEN same(ct.resp)
    ELSE IF body = BadJSON THEN same(HttpError(500, "json"))
    ELSE
    LET table == ct.table
        respFields == Range(table.columns) \ PutIdKeys(table)
        bound == [c \in respFields |-> PutBound(table, body, c)]
        res == ExecInsert(table, rws[table.name], auto[table.name], isStrict,
                          respFields, bound)
    IN IF res.err THEN same(HttpError(500, "sql"))
       ELSE [resp |-> JsonResponse("inserted", [key |-> idName, id |-> res.id]),
             rows |-> [rws EXCEPT ![table.name] = Append(@, res.row)],
             autoInc |-> [auto EXCEPT ![table.name] = Max(@, res.id)]]

\* The first field, in iteration order, that UpdateRecord's loop rejects;
\* 0 when it rejects none.
RECURSIVE FirstRejected(_, _, _, _)
FirstRejected(body, i, table, idName) ==
    IF i > Len(body) THEN 0
    ELSE IF ~CheckType(body[i].key, body[i].val, table) \/ idName = body[i].key THEN i
    ELSE FirstRejected(body, i + 1, table, idName)

\* UPDATE t SET k = ?, ... WHERE idName = <id>, the id written into the
\* statement: [err, rows, affected]. The statement fails when it names no
\* field or an unknown column, when <id> is neither a number nor a column,
\* when a value cannot be stored and when two rows would share the key.
\* affected counts the rows whose cells changed.
ExecUpdate(table, rws, isStrict, body, idName, id) ==
    LET autoCol == AutoCol(table)
        keys == BodyKeys(body)
        stored(c) == StoreValue(ColumnType(table, c), BodyValue(body, c), isStrict)
        hit(row) == IF AllDigits(id)
                    THEN CellEqualsNumber(row[idName], DigitsToNat(id, 0))
                    ELSE CellEqualsCell(row[idName], row[id])
        set(row) == [c \in Range(table.columns) |->
                        IF c \in keys THEN stored(c).cell ELSE row[c]]
        new == [i \in 1..Len(rws) |-> IF hit(rws[i]) THEN set(rws[i]) ELSE rws[i]]
        parses == /\ body # <<>>
                  /\ keys \subseteq Range(table.columns)
                  /\ (AllDigits(id) \/ id \in Range(table.columns))
    IN IF ~parses THEN [err |-> TRUE, rows |-> rws, affected |-> 0]
       ELSE IF \/ \E i \in 1..Len(rws) : hit(rws[i]) /\ \E c \in keys : stored(c).err
               \/ /\ autoCol # <<>>
                  /\ \E i, j \in 1..Len(rws) : i # j /\ new[i][autoCol] = new[j][autoCol]
       THEN [err |-> TRUE, rows |-> rws, affected |-> 0]
       ELSE [err |-> FALSE, rows |-> new,
             affected |-> Cardinality({i \in 1..Len(rws) : new[i] # rws[i]})]

\* UpdateRecord: [resp, rows, lits, where].
UpdateRecord(tbls, rws, isStrict, path, body) ==
    LET ct == CheckTable(path, tbls)
        segs == Split(path, "/")
        early(r) == [resp |-> r, rows |-> rws, lits |-> {}, where |-> <<>>]
    IN
    IF ~ct.ok THEN early(ct.resp)
    ELSE IF Len(segs) < 3 THEN early(HttpError(400, "bad request"))
    ELSE
    LET table == ct.table
        id == segs[3]
        idName == WriteIdName(table)
        rejected == FirstRejected(body, 1, table, idName)
        res == ExecUpdate(table, rws[table.name], isStrict, body, idName, id)
        lits == {[what |-> "id", text |-> id]}
        same(r) == [resp |-> r, rows |-> rws, lits |-> {}, where |-> idName]
    IN IF idName = <<>> THEN same(HttpError(500, "sql"))
       ELSE IF ~\E i \in 1..Len(rws[table.name]) :
                    CellEqualsString(rws[table.name][i][idName], id)
       THEN same(JsonError(404, "record not found"))
       ELSE IF body = BadJSON THEN same(HttpError(500, "json"))
       ELSE IF rejected # 0
       THEN same(Resp(400, "error", "field have invalid type", body[rejected].key))
       ELSE IF res.err
       THEN [resp |-> HttpError(500, "sql"), rows |-> rws, lits |-> lits,
             where |-> idName]
       ELSE [resp |-> JsonResponse("updated", res.affected),
             rows |-> [rws EXCEPT ![table.name] = res.rows],
             lits |-> lits, where |-> idName]

-----------------------------------------------------------------------------
(* Requests.                                                               *)

Methods == {"GET", "PUT", "POST", "DELETE", "HEAD"}

SeqsUpTo(chars, n) == UNION {[1..k -> chars] : k \in 1..n}

\* Every path of at most MaxPathLen characters over "/", a letter, a digit
\* and "?".
ShortPaths == SeqsUpTo({"/", "t", "1", "?"}, MaxPathLen)

TableSegs == {N_t, N_u}
IdSegs == {Itoa(i) : i \in 1..MaxId}
\* Segments between the table and the trailing digits.
MiddleSegs == {<<"1", "x">>, N_uid}

\* / , /t /u, /t/ /u/, /t/1 ..., /t/1x/1 ...
LongPaths ==
    {<<"/">>}
    \cup {<<"/">> \o a : a \in TableSegs}
    \cup {<<"/">> \o a \o <<"/">> : a \in TableSegs}
    \cup {<<"/">> \o N_t \o <<"/">> \o b : b \in IdSegs}
    \cup {<<"/">> \o N_u \o <<"/", "1">>}
    \cup {<<"/">> \o N_t \o <<"/">> \o b \o <<"/", "1">> : b \in MiddleSegs}

\* The handler the mux's function picks for a request.
Route(method, path) == PathDefinition(path, method, reqs)

NoQuery == [k \in {} |-> <<>>]
QueriesOver(vals) ==
    UNION {[ks -> vals] : ks \in SUBSET {"limit", "offset"}}

\* The query strings of the requests that list a table between writes.
FewQueries == QueriesOver({<<"1">>, N_x})
\* The query strings of the requests that page through a table: parameters
\* absent, empty, numbers up to past the table's end, and no numbers.
PageValues == {<<>>, N_x, <<"2", "x">>, <<"0", "2">>}
              \cup {Itoa(i) : i \in 0..(MaxListRows + 1)}
PageQueries == QueriesOver(PageValues)

\* The fields a body gives a table's columns, and one no column has.
FieldKeys(table) == Range(table.columns) \cup {N_zz}
FieldValues == {GoNil, GoString(N_x), GoFloat64(1)}
Fields(table) == [key : FieldKeys(table), val : FieldValues]
\* The bodies of at most n fields: no JSON object, or an object whose keys
\* differ, its fields in the order the map iteration takes them.
BodiesUpTo(table, n) ==
    {BadJSON} \cup
    {b \in UNION {[1..k -> Fields(table)] : k \in 0..n} :
        \A i, j \in 1..Len(b) : i # j => b[i].key # b[j].key}
\* The bodies of an insert, whose fields' order decides nothing but idName:
\* the fields in the order of the table's columns.
SortedBodies(table, n) ==
    {b \in BodiesUpTo(table, n) :
        \A i, j \in 1..Len(b) :
            i < j => /\ CheckColumn(b[i].key, table)
                     /\ CheckColumn(b[j].key, table)
                     /\ ColumnIndex(table, b[i].key) < ColumnIndex(table, b[j].key)}

Request(method, path, query, body) ==
    [method |-> method, path |-> path, query |-> query, body |-> body]

NoRequest == Request("", <<>>, NoQuery, <<>>)

-----------------------------------------------------------------------------
(* The server.                                                             *)

TheTable == tables[N_t]

InitDB(schemas, n) ==
    /\ tables \in {[name \in {N_t} |-> sc.table] : sc \in schemas}
    /\ strict \in BOOLEAN
    /\ rows = [name \in {N_t} |-> SeedRows(tables[name], n)]
    /\ autoInc = [name \in {N_t} |-> IF AutoCol(tables[name]) = <<>> THEN 0 ELSE n]
    /\ req = NoRequest
    /\ resp = NoResp
    /\ ran = <<>>
    /\ sqlLits = {}
    /\ whereCol = <<>>
    /\ preRows = rows
    /\ preAutoInc = autoInc
    /\ pending = {}

Init == \E n \in 0..MaxId : InitDB(Schemas, n)

\* No request is being served.
Idle == req = NoRequest

\* What the mux's function does for every request before the handler runs.
Serve(method, path, query, body, handler) ==
    /\ req' = Request(method, path, query, body)
    /\ ran' = IF handler = "nil" THEN <<>> ELSE <<handler>>
    /\ preRows' = rows
    /\ preAutoInc' = autoInc
    /\ UNCHANGED <<tables, strict>>

\* f == nil: no handler runs.
ServeNothing(paths) ==
    /\ Idle
    /\ \E method \in Methods, path \in paths :
        /\ Route(method, path) = "nil"
        /\ Serve(method, path, NoQuery, <<>>, "nil")
        /\ resp' = NoResp
        /\ sqlLits' = {}
        /\ whereCol' = <<>>
        /\ UNCHANGED <<rows, autoInc, pending>>

ServeGetTables(paths) ==
    /\ Idle
    /\ \E method \in Methods, path \in paths :
        /\ Route(method, path) = "GetTables"
        /\ Serve(method, path, NoQuery, <<>>, "GetTables")
        /\ resp' = GetTables(tables)
        /\ sqlLits' = {}
        /\ whereCol' = <<>>
        /\ UNCHANGED <<rows, autoInc, pending>>

ServeGetTableValues(paths, queries) ==
    /\ Idle
    /\ \E method \in Methods, path \in paths :
        /\ Route(method, path) = "GetTableValues"
        /\ \E query \in queries :
            /\ Serve(method, path, query, <<>>, "GetTableValues")
            /\ LET out == GetTableValues(tables, rows, path, query) IN
               /\ resp' = out.resp
               /\ sqlLits' = out.lits
            /\ whereCol' = <<>>
            /\ UNCHANGED <<rows, autoInc, pending>>

\* GetRecord, with no other request between its two queries.
ServeGetRecord(paths) ==
    /\ Idle
    /\ \E method \in Methods, path \in paths :
        /\ Route(method, path) = "GetRecord"
        /\ Serve(method, path, NoQuery, <<>>, "GetRecord")
        /\ LET call == GetRecordCheck(tables, rows, path) IN
           /\ resp' = IF call.done THEN call.resp ELSE GetRecordFetch(rows, call)
           /\ sqlLits' = IF call.done THEN {} ELSE GetRecordLits(call)
           /\ whereCol' = call.idName
        /\ UNCHANGED <<rows, autoInc, pending>>

\* PutRecord. (The model's tables stop growing at MaxId rows and keys.)
ServePutRecord(paths, fields) ==
    /\ Idle
    /\ \E method \in Methods, path \in paths :
        /\ Route(method, path) = "PutRecord"
        /\ \E body \in SortedBodies(TheTable, fields), idName \in PutIdNames(TheTable) :
            /\ Serve(method, path, NoQuery, body, "PutRecord")
            /\ LET out == PutRecord(tables, rows, autoInc, strict, path, body, idName) IN
               /\ \A name \in DOMAIN rows : Len(out.rows[name]) <= MaxId
               /\ \A name \in DOMAIN rows : out.autoInc[name] <= MaxId
               /\ resp' = out.resp
               /\ rows' = out.rows
               /\ autoInc' = out.autoInc
            /\ sqlLits' = {}
            /\ whereCol' = <<>>
            /\ UNCHANGED pending

ServeUpdateRecord(paths, fields) ==
    /\ Idle
    /\ \E method \in Methods, path \in paths :
        /\ Route(method, path) = "UpdateRecord"
        /\ \E body \in BodiesUpTo(TheTable, fields) :
            /\ Serve(method, path, NoQuery, body, "UpdateRecord")
            /\ LET out == UpdateRecord(tables, rows, strict, path, body) IN
               /\ resp' = out.resp
               /\ rows' = out.rows
               /\ sqlLits' = out.lits
               /\ whereCol' = out.where
            /\ UNCHANGED <<autoInc, pending>>

ServeDeleteRecord(paths) ==
    /\ Idle
    /\ \E method \in Methods, path \in paths :
        /\ Route(method, path) = "DeleteRecord"
        /\ Serve(method, path, NoQuery, <<>>, "DeleteRecord")
        /\ LET out == DeleteRecord(tables, rows, strict, path) IN
           /\ resp' = out.resp
           /\ rows' = out.rows
           /\ whereCol' = out.where
        /\ sqlLits' = {}
        /\ UNCHANGED <<autoInc, pending>>

\* The mux's function returns: the response is on its way and the server
\* takes the next request.
Done ==
    /\ ~Idle
    /\ req' = NoRequest
    /\ resp' = NoResp
    /\ ran' = <<>>
    /\ sqlLits' = {}
    /\ whereCol' = <<>>
    /\ preRows' = rows
    /\ preAutoInc' = autoInc
    /\ UNCHANGED <<tables, strict, rows, autoInc, pending>>

\* One request after the other, over the paths of the six operations.
Next ==
    \/ ServeNothing(LongPaths)
    \/ ServeGetTables(LongPaths)
    \/ ServeGetTableValues(LongPaths, FewQueries)
    \/ ServeGetRecord(LongPaths)
    \/ ServePutRecord(LongPaths, MaxBodyKeys)
    \/ ServeUpdateRecord(LongPaths, MaxBodyKeys)
    \/ ServeDeleteRecord(LongPaths)
    \/ Done

Spec == Init /\ [][Next]_vars


-----------------------------------------------------------------------------
(* The router alone: every short path with every method, one table, the   *)
(* bodies empty.                                                          *)

RouteSchemas == {sc \in Schemas : sc.table.columns = <<N_id, N_name>>}

InitRoute == InitDB(RouteSchemas, 1)

NextRoute ==
    \/ ServeNothing(ShortPaths)
    \/ ServeGetTables(ShortPaths)
    \/ ServeGetTableValues(ShortPaths, {NoQuery})
    \/ ServeGetRecord(ShortPaths)
    \/ ServePutRecord(ShortPaths, 0)
    \/ ServeUpdateRecord(ShortPaths, 0)
    \/ ServeDeleteRecord(ShortPaths)
    \/ Done

SpecRoute == InitRoute /\ [][NextRoute]_vars

-----------------------------------------------------------------------------
(* The requests that change a table: inserts, deletes and the updates of  *)
(* one field at a time.                                                   *)

NextWrite ==
    \/ ServePutRecord(LongPaths, MaxBodyKeys)
    \/ ServeUpdateRecord(LongPaths, 1)
    \/ ServeDeleteRecord(LongPaths)
    \/ Done

SpecWrite == Init /\ [][NextWrite]_vars

-----------------------------------------------------------------------------
(* Pagination: tables of up to MaxListRows rows, listed page by page.     *)

InitList == \E n \in 0..MaxListRows : InitDB(Schemas, n)

NextList ==
    \/ ServeGetTableValues(LongPaths, PageQueries)
    \/ Done

SpecList == InitList /\ [][NextList]_vars

-----------------------------------------------------------------------------
(* Concurrent requests: a GetRecord between its EXISTS query and its      *)
(* fetch, while the server serves DELETE requests.                        *)

\* GetRecord up to its EXISTS query: the handler answers at once, or the
\* call waits for its second round trip to the database.
GetRecordBegin(paths) ==
    /\ Idle
    /\ \E method \in Methods, path \in paths :
        /\ Route(method, path) = "GetRecord"
        /\ LET call == GetRecordCheck(tables, rows, path) IN
           IF call.done
           THEN /\ Serve(method, path, NoQuery, <<>>, "GetRecord")
                /\ resp' = call.resp
                /\ sqlLits' = {}
                /\ whereCol' = call.idName
                /\ UNCHANGED <<rows, autoInc, pending>>
           ELSE /\ Cardinality(pending) < MaxPending
                /\ pending' = pending \cup {call}
                /\ UNCHANGED <<tables, strict, rows, autoInc, req, resp, ran,
                               sqlLits, whereCol, preRows, preAutoInc>>

\* The rest of a waiting GetRecord, on the rows the table holds by then.
GetRecordEnd ==
    /\ Idle
    /\ \E call \in pending :
        /\ pending' = pending \ {call}
        /\ Serve("GET", call.path, NoQuery, <<>>, "GetRecord")
        /\ resp' = GetRecordFetch(rows, call)
        /\ sqlLits' = GetRecordLits(call)
        /\ whereCol' = call.idName
        /\ UNCHANGED <<rows, autoInc>>

NextConc ==
    \/ GetRecordBegin(LongPaths)
    \/ GetRecordEnd
    \/ ServeDeleteRecord(LongPaths)
    \/ Done

SpecConc == Init /\ [][NextConc]_vars

-----------------------------------------------------------------------------
(* CheckType alone: one column of every type the driver reports, and one  *)
(* field of a body.                                                       *)

ScanTypes == {T_int32, T_int64, T_uint32, T_float32, T_float64, T_NullInt64,
              T_NullFloat64, T_NullTime, T_RawBytes}

\* The driver reports NullInt64 and NullFloat64 for the nullable numeric
\* columns and the plain types for the others; NullTime and RawBytes for
\* the date and the text columns of either kind.
Nullables(ty) ==
    IF ty \in {T_NullInt64, T_NullFloat64} THEN {TRUE}
    ELSE IF ty \in {T_NullTime, T_RawBytes} THEN BOOLEAN
    ELSE {FALSE}

CheckTables ==
    UNION {{Table(N_t, <<Column(N_name, ty, nl)>>) : nl \in Nullables(ty)} :
            ty \in ScanTypes}

CheckValues == {GoNil, GoString(N_x), GoString(<<>>), GoFloat64(1), GoBool(TRUE)}

InitCheck ==
    /\ tables \in {[name \in {N_t} |-> tb] : tb \in CheckTables}
    /\ strict \in BOOLEAN
    /\ rows = [name \in {N_t} |-> <<>>]
    /\ autoInc = [name \in {N_t} |-> 0]
    /\ req = NoRequest
    /\ resp = NoResp
    /\ ran = <<>>
    /\ sqlLits = {}
    /\ whereCol = <<>>
    /\ preRows = rows
    /\ preAutoInc = autoInc
    /\ pending = {}

\* CheckType applied to one field, as UpdateRecord's loop applies it: the
\* field is rejected with 400 or let through.
ApplyCheckType ==
    /\ Idle
    /\ \E key \in {N_name, N_zz}, val \in CheckValues :
        /\ Serve("POST", <<"/">> \o N_t \o <<"/", "1">>, NoQuery,
                 <<[key |-> key, val |-> val]>>, "CheckType")
        /\ resp' = IF CheckType(key, val, TheTable)
                   THEN Resp(200, "accepted", "", key)
                   ELSE Resp(400, "error", "field have invalid type", key)
        /\ sqlLits' = {}
        /\ whereCol' = <<>>
        /\ UNCHANGED <<rows, autoInc, pending>>

NextCheck ==
    \/ ApplyCheckType
    \/ Done

SpecCheckType == InitCheck /\ [][NextCheck]_vars

-----------------------------------------------------------------------------
(* The properties.                                                        *)

\* The segments of the request being served, and its table.
ReqSegs == Split(req.path, "/")
ReqKnownTable == Len(ReqSegs) >= 2 /\ ReqSegs[2] \in DOMAIN tables
ReqHasId == Len(ReqSegs) >= 3 /\ ReqSegs[3] # <<>> /\ AllDigits(ReqSegs[3])
ReqId == DigitsToNat(ReqSegs[3], 0)

\* The columns whose names contain "id", by position, and the first of them.
IdColumns(table, lower) ==
    {i \in 1..Len(table.columns) :
        Contains(IF lower THEN ToLower(table.columns[i]) ELSE table.columns[i], N_id)}
FirstIdColumn(table, lower) ==
    IF IdColumns(table, lower) = {} THEN <<>>
    ELSE table.columns[CHOOSE i \in IdColumns(table, lower) :
                           \A j \in IdColumns(table, lower) : i <= j]

\* The rows of rws, by position, whose cell in column idc is the number id.
RowsWithId(rws, idc, id) == {i \in 1..Len(rws) : rws[i][idc] = IntCell(id)}

\* rws without its i-th row.
WithoutRow(rws, i) == SubSeq(rws, 1, i - 1) \o SubSeq(rws, i + 1, Len(rws))

\* A response value shows a cell: null for NULL, else the cell's text.
CellText(cell) == IF cell.k = "int" THEN Itoa(cell.n) ELSE cell.s
ValueText(v) == IF v.k = "int" THEN Itoa(v.n) ELSE v.s
ShowsCell(v, cell) ==
    IF cell.k = "null" THEN v.k = "null"
    ELSE v.k \in {"int", "float", "string"} /\ ValueText(v) = CellText(cell)
\* A response record shows a row: the table's columns, each its cell.
ShowsRow(table, record, row) ==
    /\ DOMAIN record = Range(table.columns)
    /\ \A c \in Range(table.columns) : ShowsCell(record[c], row[c])

\* The rules, by position, that qualify for the request being served.
QualifyingRules ==
    {i \in 1..Len(reqs) : MatchString(reqs[i].path, req.path) /\ reqs[i].method = req.method}

\* C1: for every request the handler that runs is the handler of the first
\* rule, in declaration order, whose pattern matches the path and whose
\* method is the request's; when no rule qualifies no handler runs and
\* nothing is written; never more than one handler runs.
C1_Routing ==
    ~Idle =>
        /\ Len(ran) <= 1
        /\ IF QualifyingRules = {}
           THEN ran = <<>> /\ resp = NoResp
           ELSE LET first == CHOOSE i \in QualifyingRules :
                                 \A j \in QualifyingRules : i <= j
                IN ran = <<reqs[first].function>>

\* A DELETE whose path an earlier rule's pattern matches too, served by
\* DeleteRecord.
C1_Witness ==
    /\ req.method = "DELETE"
    /\ ran = <<"DeleteRecord">>
    /\ MatchString(reqs[3].path, req.path)
    /\ resp.kind = "deleted"

\* C2: GET /{table}/{id} on a known table with an id column answers 404
\* "record not found" when no row has the id, and otherwise the record of a
\* row that has it: the table's columns, each with that row's value.
C2_GetRow ==
    LET idc == FirstIdColumn(TheTable, FALSE) IN
    (ran = <<"GetRecord">> /\ ReqKnownTable /\ ReqHasId /\ idc # <<>>) =>
        IF RowsWithId(rows[N_t], idc, ReqId) = {}
        THEN resp = JsonError(404, "record not found")
        ELSE /\ resp.status = 200
             /\ resp.kind = "record"
             /\ \E i \in RowsWithId(rows[N_t], idc, ReqId) :
                    ShowsRow(TheTable, resp.data, rows[N_t][i])

\* The fields of the body being served that CheckType rejects or that name
\* the column idc.
RejectedKeys(idc) ==
    {req.body[i].key : i \in {j \in 1..Len(req.body) :
        \/ ~CheckType(req.body[j].key, req.body[j].val, TheTable)
        \/ req.body[j].key = idc}}

\* C3: POST /{table}/{id} on an existing row with a body one of whose fields
\* fails validation or names the id column answers 400 "field <name> have
\* invalid type", <name> such a field, and leaves every row as it was.
C3_UpdateRejects ==
    LET idc == FirstIdColumn(TheTable, TRUE) IN
    (/\ ran = <<"UpdateRecord">> /\ ReqKnownTable /\ ReqHasId /\ idc # <<>>
     /\ RowsWithId(preRows[N_t], idc, ReqId) # {}
     /\ req.body # BadJSON
     /\ RejectedKeys(idc) # {}) =>
        /\ resp.status = 400
        /\ resp.kind = "error"
        /\ resp.msg = "field have invalid type"
        /\ resp.data \in RejectedKeys(idc)
        /\ rows = preRows

\* C4: DELETE /{table}/{id} answers deleted 0 and changes nothing when no
\* row has the id; when a row has it, it answers deleted 1 and removes that
\* row and no other, so that no row has the id afterwards.
C4_Delete ==
    LET idc == FirstIdColumn(TheTable, TRUE)
        had == RowsWithId(preRows[N_t], idc, ReqId)
    IN
    (ran = <<"DeleteRecord">> /\ ReqKnownTable /\ ReqHasId /\ idc # <<>>) =>
        IF had = {}
        THEN resp = JsonResponse("deleted", 0) /\ rows = preRows
        ELSE /\ resp = JsonResponse("deleted", 1)
             /\ \E i \in had : rows[N_t] = WithoutRow(preRows[N_t], i)
             /\ RowsWithId(rows[N_t], idc, ReqId) = {}

\* The request being served is an insert, with a JSON object as its body,
\* into a table whose AUTO_INCREMENT column has "id" in its name.
InsertServed ==
    /\ ran = <<"PutRecord">>
    /\ ReqKnownTable
    /\ req.body # BadJSON
    /\ AutoCol(TheTable) # <<>>
    /\ Contains(AutoCol(TheTable), N_id)

AskedFor(query, key, default) ==
    IF key \in DOMAIN query /\ query[key] # <<>> /\ AllDigits(query[key])
    THEN DigitsToNat(query[key], 0)
    ELSE default

\* C6: GET /{table}?limit=L&offset=O on a known table answers the rows from
\* the O-th on, in the table's order, at most L of them and no fewer while
\* rows are left; limit defaults to 5 and offset to 0, each whenever its own
\* parameter is absent or not all digits.
C6_ListRows ==
    (ran = <<"GetTableValues">> /\ ReqKnownTable) =>
        LET L == AskedFor(req.query, "limit", 5)
            O == AskedFor(req.query, "offset", 0)
            all == rows[N_t]
            count == Min(L, Max(0, Len(all) - O))
        IN /\ resp.status = 200
           /\ resp.kind = "records"
           /\ Len(resp.data) = count
           /\ Len(resp.data) <= L
           /\ \A i \in 1..count : ShowsRow(TheTable, resp.data[i], all[O + i])

\* A table of more than five rows listed with an offset and no usable
\* limit: five rows from the offset on.
C6_Witness ==
    /\ ran = <<"GetTableValues">>
    /\ ReqKnownTable
    /\ "offset" \in DOMAIN req.query
    /\ req.query["offset"] = <<"1">>
    /\ "limit" \in DOMAIN req.query
    /\ req.query["limit"] = N_x
    /\ Len(rows[N_t]) > 6
    /\ Len(resp.data) = 5

\* C7: the column in the WHERE clause of GetRecord, UpdateRecord and
\* DeleteRecord is the first column whose name contains "id", as written in
\* GetRecord and in lower case in the other two.
C7_FirstIdColumn ==
    (/\ Len(ran) = 1
     /\ ran[1] \in {"GetRecord", "UpdateRecord", "DeleteRecord"}
     /\ whereCol # <<>>) =>
        whereCol = FirstIdColumn(TheTable, ran[1] # "GetRecord")

\* The scan types of the numeric columns.
NumericScanTypes == {T_int32, T_int64, T_uint32, T_float32, T_float64,
                     T_NullInt64, T_NullFloat64}

\* C8: CheckType accepts null exactly for a nullable column, rejects a
\* string for a column that is not text, accepts a number exactly for a
\* numeric column, and accepts every value for a name that is no column.
C8_CheckType ==
    ran = <<"CheckType">> =>
        LET key == req.body[1].key
            val == req.body[1].val
            column == TheTable.columnTypes[1]
            accepted == resp.status = 200
        IN IF key # column.name THEN accepted
           ELSE /\ val.k = "nil" => (accepted <=> column.nullable)
                /\ (val.k = "string" /\ column.scanType # T_RawBytes) => ~accepted
                /\ val.k = "float64" => (accepted <=> column.scanType \in NumericScanTypes)

\* C9: a GET /{table}/{id} on a table with an id column, whatever DELETE
\* requests run between its two queries, ends with 404 "record not found"
\* or with the complete record, never with a 500.
C9_GetNever500 ==
    (ran = <<"GetRecord">> /\ ReqKnownTable /\ ReqHasId
     /\ IdColumns(TheTable, FALSE) # {}) =>
        /\ resp.status # 500
        /\ \/ resp = JsonError(404, "record not found")
           \/ /\ resp.kind = "record"
              /\ DOMAIN resp.data = Range(TheTable.columns)

\* C10: every value of the request that a handler writes into the text of
\* a statement is a non-empty string of decimal digits.
C10_LiteralsAreDigits ==
    \A l \in sqlLits : l.text # <<>> /\ AllDigits(l.text)

====
